---- MODULE Spec2Model ----
(***************************************************************************)
(* Cache / fallback / write-back contract of the apollo-leads feature:     *)
(* the employees_cache table, the upsert that writes it, the contact       *)
(* reveal (email, phone) and the employee search with provider fallback.   *)
(* Every handler is one atomic action; its inputs (request, arguments, the *)
(* environment of the process that serves it, what the provider answers,   *)
(* whether a database statement fails) are drawn with \E, and what it      *)
(* returned is recorded in `last` until the caller has taken the response. *)
(* The table outlives the processes, so the environment (NODE_ENV,         *)
(* DEV_TENANT_ID, API key, webhook URL) is an input of each invocation; a  *)
(* variable the invocation does not read is not enumerated.                *)
(***************************************************************************)
EXTENDS Integers, Sequences, FiniteSets

VARIABLES
    cache,    \* rows of <schema>.employees_cache
    clock,    \* source of created_at (NOW() of each inserting statement)
    ops,      \* handler invocations still allowed in this behaviour
    last,     \* the handler invocation whose response is pending, and the response
    revealed, \* history: <<tenant, personId, email>> of the emails revealEmail
              \* has returned from the provider
    race      \* two revealEmail calls in flight at once: where each stands,
              \* and the e-mails their UPDATE statements wrote, in order

vars == <<cache, clock, ops, last, revealed, race>>

(***************************************************************************)
(* Bounds of the model                                                     *)
(***************************************************************************)
MaxOps == 2        \* handler invocations per behaviour (cache and search specifications)
MaxRevealOps == 3  \* handler invocations per behaviour (reveal specification)
MaxBatch == 2      \* records in one provider answer / one batch save

(***************************************************************************)
(* Values                                                                  *)
(***************************************************************************)
NULL == "null"                 \* JS null / undefined, SQL NULL
NoEmail == <<>>                \* a null or empty e-mail (both falsy, both skipped by the SQL)
THROW == "throw"

Tenants == {"t1", "t2"}
Persons == {"p1", "p2"}

\* E-mails are strings over a small alphabet of fragments.
RealEmailA == <<"bob@", "corp.io">>
RealEmailB == <<"ann@", "mail.org">>
FakeEmailInfo == <<"INFO@", "acme.com">>
FakeEmailTest == <<"test@", "example.com">>

ToLowerCaseNone(s) == s
\* String.prototype.toLowerCase on the fragments and titles of the model.
ToLowerCase(s) ==
    CASE s = "INFO@" -> "info@"
      [] s = "CEO" -> "ceo"
      [] s = "CTO" -> "cto"
      [] s = "Paris" -> "paris"
      [] s = "Acme" -> "acme"
      [] OTHER -> s

LowerSeq(e) == [i \in 1..Len(e) |-> ToLowerCase(e[i])]

IncludesWhole(e, pattern) == e = pattern
\* String.prototype.includes: pattern occurs as a contiguous run of the string.
Includes(e, pattern) ==
    \E i \in 0..(Len(e) - Len(pattern)) :
        \A j \in 1..Len(pattern) : e[i + j] = pattern[j]

\* CACHE_CONFIG.FAKE_EMAIL_PATTERNS of models/constants.js
FAKE_EMAIL_PATTERNS ==
    { <<"noemail">>, <<"no-email">>, <<"unavailable">>, <<"not-available">>,
      <<"not_unlocked">>, <<"email_not_unlocked">>, <<"private">>, <<"hidden">>,
      <<"contact@">>, <<"info@">>, <<"admin@">>, <<"support@">>, <<"hello@">>,
      <<"example.com">>, <<"test.com">>, <<"sample.com">> }

IsFakeEmailAlways(email) == TRUE
\* ApolloRevealService._isFakeEmail
IsFakeEmail(email) ==
    IF email = NoEmail THEN TRUE
    ELSE \E pattern \in FAKE_EMAIL_PATTERNS : Includes(LowerSeq(email), pattern)

\* CREDIT_COSTS and APOLLO_CONFIG.MAX_PER_PAGE
EMAIL_REVEAL == 1
PHONE_REVEAL == 8
MAX_PER_PAGE == 100

\* JS `a || b` on nullable strings
OrElse(a, b) == IF a = NULL \/ a = "" THEN b ELSE a

(***************************************************************************)
(* Requests and tenant resolution                                          *)
(***************************************************************************)
NoTenantReq == [user_tenant_id |-> NULL, user_tenantId |-> NULL, tenant_id |-> NULL, header |-> NULL]

Requests ==
    { NoTenantReq,
      [NoTenantReq EXCEPT !.user_tenant_id = "t1"],
      [NoTenantReq EXCEPT !.header = "t2"] }

\* req.user?.tenant_id || req.tenant?.id || req.headers?.['x-tenant-id']
TenantFromRequest(req) == OrElse(req.user_tenant_id, OrElse(req.tenant_id, req.header))

\* NODE_ENV and DEV_TENANT_ID; DEV_TENANT_ID is only read outside production
DefaultEnv == [production |-> TRUE, devTenant |-> NULL]
TenantEnvs ==
    { DefaultEnv,
      [production |-> FALSE, devTenant |-> NULL],
      [production |-> FALSE, devTenant |-> "t2"] }

\* the environments that make a difference to a request: none when it names its tenant
EnvsFor(req) == IF TenantFromRequest(req) # NULL THEN {DefaultEnv} ELSE TenantEnvs

\* core/utils/tenantHelper.js requireTenantId(tenantId, req, context)
RequireTenantId(tenantId, req, env) ==
    IF tenantId # NULL THEN tenantId
    ELSE IF TenantFromRequest(req) # NULL THEN TenantFromRequest(req)
    ELSE IF ~env.production /\ env.devTenant # NULL THEN env.devTenant
    ELSE THROW

\* features/apollo-leads/utils/schema.js requireTenantId(tenantId): the request
\* and the context passed as second and third argument are not read
SchemaRequireTenantId(tenantId) == IF tenantId # NULL THEN tenantId ELSE THROW

\* the module behind `require('./utils/schema')` in ApolloRevealService.js:
\* the import was core/utils/tenantHelper before the import rewrite
\* (replacements of the update script), and is utils/schema.js after it
TenantResolvers == {"tenantHelper", "schema"}

\* requireTenantId(null, req, context) as ApolloRevealService calls it
RevealRequireTenantId(resolver, req, env) ==
    IF resolver = "schema" THEN SchemaRequireTenantId(NULL)
    ELSE RequireTenantId(NULL, req, env)

(***************************************************************************)
(* Provider records and their cache shape                                  *)
(***************************************************************************)
\* Records of the provider's people search (`people[]`).
RawAnnCeo == [id |-> "p1", name |-> "Ann", title |-> "CEO", email |-> NoEmail,
              phone |-> NULL, city |-> "Paris", org_id |-> "c1", org_name |-> "Acme",
              company_id |-> NULL]
RawAnnCto == [id |-> "p1", name |-> "Ann", title |-> "CTO", email |-> FakeEmailInfo,
              phone |-> NULL, city |-> NULL, org_id |-> NULL, org_name |-> NULL,
              company_id |-> "c1"]
RawBobCeo == [id |-> "p2", name |-> "Bob", title |-> "CEO", email |-> RealEmailB,
              phone |-> NULL, city |-> NULL, org_id |-> NULL, org_name |-> NULL,
              company_id |-> NULL]

People == {RawAnnCeo, RawAnnCto, RawBobCeo}

\* ApolloCacheSaveService.formatApolloEmployees, one element of the map
FormatApolloEmployee(emp) ==
    [id |-> emp.id, name |-> emp.name, title |-> emp.title, email |-> emp.email,
     phone |-> emp.phone, city |-> emp.city,
     company_id |-> OrElse(emp.org_id, emp.company_id),
     company_name |-> emp.org_name]

FormatApolloEmployees(apolloEmployees) ==
    [i \in 1..Len(apolloEmployees) |-> FormatApolloEmployee(apolloEmployees[i])]

\* every sequence of at most n elements of S
RECURSIVE SeqsUpTo(_, _)
SeqsUpTo(S, n) ==
    IF n = 0 THEN {<<>>}
    ELSE LET shorter == SeqsUpTo(S, n - 1)
         IN shorter \cup {Append(s, x) : s \in {t \in shorter : Len(t) = n - 1}, x \in S}

(***************************************************************************)
(* employees_cache and the upsert statement                                *)
(***************************************************************************)
\* the rows an INSERT ... ON CONFLICT (tenant_id, company_id, apollo_person_id)
\* collides with; in the unique index a NULL company_id equals no other NULL
ConflictRows(rows, tenantId, e) ==
    {r \in rows : /\ r.tenant_id = tenantId
                  /\ e.company_id # NULL
                  /\ r.company_id = e.company_id
                  /\ r.apollo_person_id = e.id}

\* COALESCE(EXCLUDED.col, employees_cache.col)
Coalesce(new, old) == IF new = NULL THEN old ELSE new
CoalesceEmailExcluded(new, old) == new
CoalesceEmail(new, old) == IF new = NoEmail THEN old ELSE new

UpdatedRowKeepingStored(r, e) ==
    [r EXCEPT !.employee_name = e.name,
              !.employee_title = e.title,
              !.employee_email = CoalesceEmail(r.employee_email, e.email),
              !.employee_phone = Coalesce(r.employee_phone, e.phone),
              !.employee_city = Coalesce(r.employee_city, e.city),
              !.company_name = Coalesce(r.company_name, e.company_name)]
\* the DO UPDATE SET list of the upsert
UpdatedRow(r, e) ==
    [r EXCEPT !.employee_name = e.name,
              !.employee_title = e.title,
              !.employee_email = CoalesceEmail(e.email, r.employee_email),
              !.employee_phone = Coalesce(e.phone, r.employee_phone),
              !.employee_city = Coalesce(e.city, r.employee_city),
              !.company_name = Coalesce(e.company_name, r.company_name)]

\* the VALUES list of the upsert
InsertedRow(tenantId, e, now) ==
    [tenant_id |-> tenantId, company_id |-> e.company_id, apollo_person_id |-> e.id,
     employee_name |-> e.name, employee_title |-> e.title, employee_email |-> e.email,
     employee_phone |-> e.phone, employee_city |-> e.city,
     company_name |-> e.company_name, created_at |-> now,
     is_deleted |-> FALSE]      \* the column's DEFAULT FALSE

\* the table after INSERT ... ON CONFLICT ... DO UPDATE
UpsertRows(rows, tenantId, e, now) ==
    LET hit == ConflictRows(rows, tenantId, e)
    IN IF hit = {} THEN rows \cup {InsertedRow(tenantId, e, now)}
       ELSE (rows \ hit) \cup {UpdatedRow(r, e) : r \in hit}

\* whether the statement adds a row
UpsertInserts(rows, tenantId, e) == ConflictRows(rows, tenantId, e) = {}

\* result.command of node-postgres: the command tag of the statement, which is
\* INSERT for INSERT ... ON CONFLICT DO UPDATE whichever branch ran
UpsertCommand(rows, tenantId, e) == "INSERT"

(***************************************************************************)
(* saveEmployeesToCache: the loop over the batch                           *)
(***************************************************************************)
\* state of the loop: table, clock and the three counters
SaveStart(rows, now) ==
    [rows |-> rows, now |-> now, savedCount |-> 0, updatedCount |-> 0, errorCount |-> 0]

SaveStepSkip(st, tenantId, emp, fails) == st
\* one iteration of the loop; fails: the statement of this record is rejected
SaveStep(st, tenantId, emp, fails) ==
    IF emp.id = NULL \/ emp.id = "" THEN [st EXCEPT !.errorCount = @ + 1]
    ELSE IF fails THEN [st EXCEPT !.errorCount = @ + 1]
    ELSE LET inserts == UpsertInserts(st.rows, tenantId, emp)
             command == UpsertCommand(st.rows, tenantId, emp)
         IN [st EXCEPT !.rows = UpsertRows(st.rows, tenantId, emp, st.now),
                       !.now = IF inserts THEN st.now + 1 ELSE st.now,
                       !.savedCount = IF command = "INSERT" THEN @ + 1 ELSE @,
                       !.updatedCount = IF command = "INSERT" THEN @ ELSE @ + 1]

RECURSIVE SaveLoop(_, _, _, _, _)
SaveLoop(st, tenantId, employees, failing, i) ==
    IF i > Len(employees) THEN st
    ELSE SaveLoop(SaveStep(st, tenantId, employees[i], i \in failing),
                  tenantId, employees, failing, i + 1)

(***************************************************************************)
(* The record of a handler invocation                                      *)
(***************************************************************************)
\* searchParams with none of the three filter arrays given
NoFilters ==
    [person_titles |-> <<>>, organization_locations |-> <<>>, organization_industries |-> <<>>]

NoCall ==
    [op |-> "none", req |-> NoTenantReq, env |-> DefaultEnv, tenant |-> NULL,
     outcome |-> "none", error |-> "none",
     \* reveal
     personId |-> NULL, employeeName |-> NULL, apiKey |-> TRUE, webhook |-> FALSE,
     email |-> NoEmail, phone |-> NULL, from_cache |-> FALSE, credits_used |-> 0,
     processing |-> FALSE, resultError |-> FALSE,
     cacheQueried |-> FALSE, cacheReadFailed |-> FALSE, cacheHit |-> {},
     conflictRows |-> {},
     \* pool-based search: a client was checked out, release() calls on it
     connected |-> FALSE, releases |-> 0,
     providerCalls |-> 0, providerPerPage |-> 0, providerAnswered |-> FALSE,
     providerStatus |-> "none", providerMatch |-> {}, providerPhone |-> {},
     cacheWritten |-> FALSE, cacheWriteFailed |-> FALSE,
     doubleRelease |-> FALSE, usedAfterRelease |-> FALSE,
     \* search
     filters |-> NoFilters, perPage |-> 0, page |-> 0, excludeIds |-> {},
     success |-> FALSE, employees |-> <<>>, count |-> 0, cacheRows |-> <<>>,
     providerKind |-> "none", providerRaw |-> <<>>, providerRows |-> <<>>,
     writeTenant |-> NULL,
     \* upsert and batch save
     batch |-> <<>>, savedCount |-> 0, updatedCount |-> 0, errorCount |-> 0]

Idle == last.op = "none"

\* the concurrent calls of the race, and a call that has not started
RevealProcs == {"a", "b"}
NoProc == [pc |-> "idle", stale |-> FALSE, outcome |-> "none", error |-> "none",
           email |-> NoEmail, from_cache |-> FALSE, credits_used |-> 0,
           providerCalls |-> 0, resultError |-> FALSE, wrote |-> FALSE]
NoRace == [proc |-> [p \in RevealProcs |-> NoProc], writes |-> <<>>]

(***************************************************************************)
(* upsertEmployee(employeeData, schema, tenantId)                          *)
(***************************************************************************)
UpsertEmployee ==
    /\ Idle /\ ops > 0
    /\ \E tenantId \in Tenants, raw \in People :
         LET e == FormatApolloEmployee(raw)
         IN /\ cache' = UpsertRows(cache, tenantId, e, clock)
            /\ clock' = IF UpsertInserts(cache, tenantId, e) THEN clock + 1 ELSE clock
            /\ last' = [NoCall EXCEPT !.op = "upsertEmployee", !.tenant = tenantId,
                                      !.outcome = "return", !.batch = <<e>>,
                                      !.conflictRows = ConflictRows(cache, tenantId, e)]
    /\ ops' = ops - 1
    /\ UNCHANGED race
    /\ UNCHANGED revealed

(***************************************************************************)
(* saveEmployeesToCache(employees, req)                                    *)
(***************************************************************************)
SaveEmployeesToCache ==
    /\ Idle /\ ops > 0
    /\ \E req \in Requests, raws \in SeqsUpTo(People, MaxBatch) :
       \E env \in EnvsFor(req) :
         LET employees == FormatApolloEmployees(raws)
             tenantId == RequireTenantId(NULL, req, env)
             call == [NoCall EXCEPT !.op = "saveEmployeesToCache", !.req = req,
                                    !.env = env, !.batch = employees]
         IN IF tenantId = THROW
            THEN /\ last' = [call EXCEPT !.outcome = "throw", !.error = "tenant"]
                 /\ UNCHANGED <<cache, clock>>
            ELSE \/ \* pool.connect() rejects
                    /\ last' = [call EXCEPT !.tenant = tenantId, !.outcome = "throw",
                                            !.error = "cache"]
                    /\ UNCHANGED <<cache, clock>>
                 \/ \E failing \in SUBSET (1..Len(employees)) :
                      LET st == SaveLoop(SaveStart(cache, clock), tenantId, employees, failing, 1)
                      IN /\ cache' = st.rows
                         /\ clock' = st.now
                         /\ last' = [call EXCEPT !.tenant = tenantId, !.outcome = "return",
                                                 !.savedCount = st.savedCount,
                                                 !.updatedCount = st.updatedCount,
                                                 !.errorCount = st.errorCount]
    /\ ops' = ops - 1
    /\ UNCHANGED race
    /\ UNCHANGED revealed

(***************************************************************************)
(* Contact reveal: what the provider's people/bulk_match can answer        *)
(***************************************************************************)
RevealTargets ==
    { [personId |-> "p1", employeeName |-> NULL],
      [personId |-> "p2", employeeName |-> NULL],
      [personId |-> NULL, employeeName |-> "Ann"],
      [personId |-> NULL, employeeName |-> NULL] }

\* HTTP statuses of a rejected call; "network" is an error without a response
RevealFailures == {"401", "403", "404", "429", "500", "network"}

\* matches[0] of an accepted call, as far as revealEmail reads it
EmailMatches ==
    { [email |-> RealEmailA, personal_emails |-> <<>>],
      [email |-> FakeEmailInfo, personal_emails |-> <<FakeEmailTest, RealEmailB>>],
      [email |-> NoEmail, personal_emails |-> <<FakeEmailTest>>] }

\* matches[0].phone_numbers[0].raw_number of an accepted call
PhoneMatches == {"555", NULL}

\* personalEmails.find(e => e && !this._isFakeEmail(e)) || null
RECURSIVE FindRealEmail(_)
FindRealEmail(emails) ==
    IF emails = <<>> THEN NoEmail
    ELSE IF Head(emails) # NoEmail /\ ~IsFakeEmail(Head(emails)) THEN Head(emails)
    ELSE FindRealEmail(Tail(emails))

\* revealEmail lines 115-122: prefer the work email, else the first real personal email
ChooseEmail(person) ==
    IF person.email = NoEmail \/ IsFakeEmail(person.email)
    THEN FindRealEmail(person.personal_emails)
    ELSE person.email

\* the rows the cache query of revealEmail selects from (before LIMIT 1)
EmailCacheRows(rows, tenantId, personId, employeeName) ==
    {r \in rows : /\ IF personId # NULL THEN r.apollo_person_id = personId
                                        ELSE r.employee_name = employeeName
                  /\ r.tenant_id = tenantId
                  /\ r.employee_email # NoEmail}

\* the rows the cache query of revealPhone selects from (before LIMIT 1)
PhoneCacheRows(rows, tenantId, personId, employeeName) ==
    {r \in rows : /\ IF personId # NULL THEN r.apollo_person_id = personId
                                        ELSE r.employee_name = employeeName
                  /\ r.tenant_id = tenantId
                  /\ r.employee_phone # NULL /\ r.employee_phone # ""}

\* UPDATE employees_cache SET employee_email = $1 WHERE apollo_person_id = $2 AND tenant_id = $3
UpdateEmail(rows, tenantId, personId, email) ==
    {IF r.apollo_person_id = personId /\ r.tenant_id = tenantId
     THEN [r EXCEPT !.employee_email = email] ELSE r : r \in rows}

\* UPDATE employees_cache SET employee_phone = $1 WHERE apollo_person_id = $2 AND tenant_id = $3
UpdatePhone(rows, tenantId, personId, phone) ==
    {IF r.apollo_person_id = personId /\ r.tenant_id = tenantId
     THEN [r EXCEPT !.employee_phone = phone] ELSE r : r \in rows}

(***************************************************************************)
(* ApolloRevealService.revealEmail(personId, employeeName, req)            *)
(*                                                                         *)
(* `stale`: the cache check failed in client.query, its catch released the *)
(* client and left the variable set (line 88).  From then on every         *)
(* `if (client) client.release()` is a second release, which pg-pool       *)
(* answers by throwing, and STEP 3 runs its UPDATE on the released client. *)
(***************************************************************************)
\* what a throw inside the outer try becomes once the outer catch has run
ThrownAsDatabase(call, error, stale) ==
    [call EXCEPT !.outcome = "throw", !.error = "cache", !.doubleRelease = stale]
\* the outer catch: `if (client) client.release()` throws on a client that was
\* already released, else the error is rethrown under its own message
Thrown(call, error, stale) ==
    [call EXCEPT !.outcome = "throw",
                 !.error = IF stale THEN "release" ELSE error,
                 !.doubleRelease = stale]

\* STEP 2 and STEP 3: the cache gave nothing usable
RevealEmailFromProvider(call, tenantId, personId, stale) ==
    IF personId = NULL
    THEN /\ last' = Thrown(call, "person_id", stale)
         /\ UNCHANGED cache
    ELSE \E apiKey \in BOOLEAN :
         IF ~apiKey
         THEN /\ last' = Thrown([call EXCEPT !.apiKey = FALSE], "api_key", stale)
              /\ UNCHANGED cache
         ELSE \/ \E failure \in RevealFailures :
                   /\ last' = Thrown([call EXCEPT !.providerCalls = 1,
                                                  !.providerStatus = failure],
                                     failure, stale)
                   /\ UNCHANGED cache
              \/ \E person \in EmailMatches :
                   LET email == ChooseEmail(person)
                       answered == [call EXCEPT !.outcome = "return", !.providerCalls = 1,
                                                !.providerAnswered = TRUE,
                                                !.providerMatch = {person},
                                                !.credits_used = EMAIL_REVEAL]
                   IN IF email = NoEmail \/ IsFakeEmail(email)
                      THEN /\ last' = [answered EXCEPT !.resultError = TRUE]
                           /\ UNCHANGED cache
                      ELSE IF stale
                      THEN \* the UPDATE runs on the released client, then release() throws
                           /\ last' = Thrown([answered EXCEPT !.usedAfterRelease = TRUE,
                                                              !.credits_used = 0],
                                             "release", TRUE)
                           /\ \/ cache' = UpdateEmail(cache, tenantId, personId, email)
                              \/ UNCHANGED cache
                      ELSE \/ /\ last' = [answered EXCEPT !.email = email,
                                                          !.cacheWritten = TRUE]
                              /\ cache' = UpdateEmail(cache, tenantId, personId, email)
                           \/ \* pool.connect or the UPDATE rejects: logged, skipped
                              /\ last' = [answered EXCEPT !.email = email,
                                                          !.cacheWriteFailed = TRUE]
                              /\ UNCHANGED cache

RevealEmail ==
    /\ Idle /\ ops > 0
    /\ \E req \in Requests, target \in RevealTargets :
       \E env \in EnvsFor(req), resolver \in TenantResolvers :
         LET personId == target.personId
             employeeName == target.employeeName
             tenantId == RevealRequireTenantId(resolver, req, env)
             call == [NoCall EXCEPT !.op = "revealEmail", !.req = req, !.env = env,
                                    !.personId = personId, !.employeeName = employeeName]
             scoped == [call EXCEPT !.tenant = tenantId]
         IN IF tenantId = THROW
            THEN /\ last' = Thrown(call, "tenant", FALSE)
                 /\ UNCHANGED cache
            ELSE IF personId = NULL /\ employeeName = NULL
            THEN RevealEmailFromProvider(scoped, tenantId, personId, FALSE)
            ELSE \/ \* STEP 1 rejects (logged, treated as a miss): in pool.connect,
                    \* or in client.query with the client held
                    \E held \in BOOLEAN :
                      RevealEmailFromProvider([scoped EXCEPT !.cacheReadFailed = TRUE],
                                              tenantId, personId, held)
                 \/ LET rows == EmailCacheRows(cache, tenantId, personId, employeeName)
                        queried == [scoped EXCEPT !.cacheQueried = TRUE]
                    IN IF rows = {}
                       THEN RevealEmailFromProvider(queried, tenantId, personId, FALSE)
                       ELSE \E row \in rows :    \* LIMIT 1 without ORDER BY
                              IF ~IsFakeEmail(row.employee_email)
                              THEN /\ last' = [queried EXCEPT !.outcome = "return",
                                                              !.cacheHit = {row},
                                                              !.email = row.employee_email,
                                                              !.from_cache = TRUE,
                                                              !.credits_used = 0]
                                   /\ UNCHANGED cache
                              ELSE RevealEmailFromProvider(queried, tenantId, personId, FALSE)
    /\ ops' = ops - 1
    /\ UNCHANGED race
    /\ revealed' = IF last'.outcome = "return" /\ ~last'.from_cache /\ last'.email # NoEmail
                   THEN revealed \cup {<<last'.tenant, last'.personId, last'.email>>}
                   ELSE revealed
    /\ UNCHANGED clock

(***************************************************************************)
(* ApolloRevealService.revealPhone(personId, employeeName, req)            *)
(***************************************************************************)
WebhookPendingWithoutPhone(webhook, phone) == webhook /\ phone = NULL
\* `if (webhookUrl)` after the call: the number comes later, through the webhook
WebhookPending(webhook, phone) == webhook

\* STEP 2 and STEP 3: the cache gave nothing
RevealPhoneFromProvider(call, tenantId, personId, stale) ==
    IF personId = NULL
    THEN /\ last' = Thrown(call, "person_id", stale)
         /\ UNCHANGED cache
    ELSE \E apiKey \in BOOLEAN :
         IF ~apiKey
         THEN /\ last' = Thrown([call EXCEPT !.apiKey = FALSE], "api_key", stale)
              /\ UNCHANGED cache
         ELSE \E webhook \in BOOLEAN :
              \/ \E failure \in RevealFailures :
                   /\ last' = Thrown([call EXCEPT !.providerCalls = 1, !.webhook = webhook,
                                                  !.providerStatus = failure],
                                     failure, stale)
                   /\ UNCHANGED cache
              \/ \E phone \in PhoneMatches :
                   LET answered == [call EXCEPT !.outcome = "return", !.providerCalls = 1,
                                                !.providerAnswered = TRUE,
                                                !.webhook = webhook,
                                                !.providerPhone = {phone},
                                                !.credits_used = PHONE_REVEAL]
                   IN IF WebhookPending(webhook, phone)
                      THEN /\ last' = [answered EXCEPT !.processing = TRUE]
                           /\ UNCHANGED cache
                      ELSE IF phone = NULL \/ phone = ""
                      THEN /\ last' = [answered EXCEPT !.resultError = TRUE]
                           /\ UNCHANGED cache
                      ELSE IF stale
                      THEN \* the UPDATE runs on the released client, then release() throws
                           /\ last' = Thrown([answered EXCEPT !.usedAfterRelease = TRUE,
                                                              !.credits_used = 0],
                                             "release", TRUE)
                           /\ \/ cache' = UpdatePhone(cache, tenantId, personId, phone)
                              \/ UNCHANGED cache
                      ELSE \/ /\ last' = [answered EXCEPT !.phone = phone,
                                                          !.cacheWritten = TRUE]
                              /\ cache' = UpdatePhone(cache, tenantId, personId, phone)
                           \/ \* pool.connect or the UPDATE rejects: logged, skipped
                              /\ last' = [answered EXCEPT !.phone = phone,
                                                          !.cacheWriteFailed = TRUE]
                              /\ UNCHANGED cache

RevealPhone ==
    /\ Idle /\ ops > 0
    /\ \E req \in Requests, target \in RevealTargets :
       \E env \in EnvsFor(req), resolver \in TenantResolvers :
         LET personId == target.personId
             employeeName == target.employeeName
             tenantId == RevealRequireTenantId(resolver, req, env)
             call == [NoCall EXCEPT !.op = "revealPhone", !.req = req, !.env = env,
                                    !.personId = personId, !.employeeName = employeeName]
             scoped == [call EXCEPT !.tenant = tenantId]
         IN IF tenantId = THROW
            THEN /\ last' = Thrown(call, "tenant", FALSE)
                 /\ UNCHANGED cache
            ELSE IF personId = NULL /\ employeeName = NULL
            THEN RevealPhoneFromProvider(scoped, tenantId, personId, FALSE)
            ELSE \/ \* STEP 1 rejects (logged, treated as a miss): in pool.connect,
                    \* or in client.query with the client held
                    \E held \in BOOLEAN :
                      RevealPhoneFromProvider([scoped EXCEPT !.cacheReadFailed = TRUE],
                                              tenantId, personId, held)
                 \/ LET rows == PhoneCacheRows(cache, tenantId, personId, employeeName)
                        queried == [scoped EXCEPT !.cacheQueried = TRUE]
                    IN IF rows = {}
                       THEN RevealPhoneFromProvider(queried, tenantId, personId, FALSE)
                       ELSE \E row \in rows :    \* LIMIT 1 without ORDER BY
                              /\ last' = [queried EXCEPT !.outcome = "return",
                                                         !.cacheHit = {row},
                                                         !.phone = row.employee_phone,
                                                         !.from_cache = TRUE,
                                                         !.credits_used = 0]
                              /\ UNCHANGED cache
    /\ ops' = ops - 1
    /\ UNCHANGED race
    /\ UNCHANGED <<clock, revealed>>

(***************************************************************************)
(* controllers/ApolloLeadsController.js over services/ApolloLeadsService.js *)
(* (the handlers outside the feature): no tenant, no cache; the provider   *)
(* is called and the response carries a literal credits_used               *)
(***************************************************************************)
LEGACY_EMAIL_CREDITS == 1
LEGACY_PHONE_CREDITS == 9

LegacyRevealEmail ==
    /\ Idle /\ ops > 0
    /\ \E personId \in Persons :
         LET call == [NoCall EXCEPT !.op = "legacyRevealEmail", !.personId = personId,
                                    !.providerCalls = 1]
         IN \/ \E failure \in RevealFailures :
                 last' = [call EXCEPT !.outcome = "throw", !.error = failure,
                                      !.providerStatus = failure]
            \/ \E person \in EmailMatches :
                 last' = [call EXCEPT !.outcome = "return", !.providerAnswered = TRUE,
                                      !.providerMatch = {person},
                                      !.email = person.email,
                                      !.credits_used = LEGACY_EMAIL_CREDITS]
    /\ ops' = ops - 1
    /\ UNCHANGED race
    /\ UNCHANGED <<cache, clock, revealed>>

LegacyRevealPhone ==
    /\ Idle /\ ops > 0
    /\ \E personId \in Persons :
         LET call == [NoCall EXCEPT !.op = "legacyRevealPhone", !.personId = personId,
                                    !.providerCalls = 1]
         IN \/ \E failure \in RevealFailures :
                 last' = [call EXCEPT !.outcome = "throw", !.error = failure,
                                      !.providerStatus = failure]
            \/ \E phone \in PhoneMatches :
                 last' = [call EXCEPT !.outcome = "return", !.providerAnswered = TRUE,
                                      !.phone = phone,
                                      !.credits_used = LEGACY_PHONE_CREDITS]
    /\ ops' = ops - 1
    /\ UNCHANGED race
    /\ UNCHANGED <<cache, clock, revealed>>

(***************************************************************************)
(* ApolloLeadsController.revealEmail / revealPhone: the HTTP response to   *)
(* the result or the throw of the reveal service; credits_used is the set  *)
(* of values the body reports (empty when the body has no such field)      *)
(***************************************************************************)
RevealResponseCharged(call) ==
    [status |-> IF call.outcome = "throw" THEN 500 ELSE 200,
     success |-> call.outcome # "throw" /\ ~call.resultError,
     credits_used |-> {call.credits_used}]
RevealResponse(call) ==
    IF call.outcome = "throw"
    THEN [status |-> 500, success |-> FALSE, credits_used |-> {}]
    ELSE IF call.resultError
    THEN [status |-> 200, success |-> FALSE, credits_used |-> {call.credits_used}]
    ELSE [status |-> 200, success |-> TRUE, credits_used |-> {call.credits_used}]

(***************************************************************************)
(* Employee search: the cache query                                        *)
(***************************************************************************)
TitleCeo == [NoFilters EXCEPT !.person_titles = <<"ceo">>]
ParisAcme == [NoFilters EXCEPT !.organization_locations = <<"Paris">>,
                               !.organization_industries = <<"acme">>]

FilterSets == {NoFilters, TitleCeo, ParisAcme}
MaxPerPage == 2                  \* largest per_page a caller asks for
PerPages == 1..MaxPerPage
Pages == {1, 2}
ExcludeSets == {{}, {"p1"}}

Min(a, b) == IF a < b THEN a ELSE b
Max(a, b) == IF a > b THEN a ELSE b

\* LOWER(col) LIKE '%' || value.toLowerCase() || '%'; the words of the model
\* contain one another only when they are equal
Like(col, value) == col # NULL /\ ToLowerCase(col) = ToLowerCase(value)

\* the WHERE clauses built from the three filter arrays
MatchesFilters(r, f) ==
    /\ f.person_titles # <<>> =>
         \E i \in 1..Len(f.person_titles) : Like(r.employee_title, f.person_titles[i])
    /\ f.organization_locations # <<>> =>
         \E i \in 1..Len(f.organization_locations) :
            Like(r.employee_city, f.organization_locations[i])
    /\ f.organization_industries # <<>> =>
         \E i \in 1..Len(f.organization_industries) :
            Like(r.company_name, f.organization_industries[i])

\* ORDER BY created_at DESC
RECURSIVE OrderByCreatedDesc(_)
OrderByCreatedDesc(rows) ==
    IF rows = {} THEN <<>>
    ELSE LET newest == CHOOSE r \in rows : \A q \in rows : q.created_at <= r.created_at
         IN <<newest>> \o OrderByCreatedDesc(rows \ {newest})

\* LIMIT limit OFFSET offset
LimitOffset(sorted, limit, offset) ==
    SubSeq(sorted, offset + 1, Min(Len(sorted), offset + limit))

\* the WHERE clause of the pool-based searchEmployeesFromDb: soft-deleted rows
\* left out, tenant scoping only `if (tenantId)`
PoolMatchingRows(rows, tenantId, f) ==
    {r \in rows : /\ ~r.is_deleted
                  /\ tenantId # NULL => r.tenant_id = tenantId
                  /\ MatchesFilters(r, f)}

\* the query of the pool-based searchEmployeesFromDb
PoolCacheQuery(rows, tenantId, f, limit, page) ==
    LimitOffset(OrderByCreatedDesc(PoolMatchingRows(rows, tenantId, f)),
                limit, (page - 1) * limit)

\* the rows ApolloEmployeesCacheRepository.searchEmployees selects from: the
\* tenant's rows that match the filters and are not excluded
RepoMatchingRows(rows, tenantId, f, excludeIds) ==
    {r \in rows : /\ r.tenant_id = tenantId
                  /\ MatchesFilters(r, f)
                  /\ r.apollo_person_id \notin excludeIds}

\* ApolloEmployeesCacheRepository.searchEmployees(params, schema, tenantId):
\* most recent first, paginated
RepoSearchEmployees(rows, tenantId, f, limit, page, excludeIds) ==
    LimitOffset(OrderByCreatedDesc(RepoMatchingRows(rows, tenantId, f, excludeIds)),
                limit, (page - 1) * limit)

\* dbRows.map(row => ({ id: row.id, ... }))
RowToEmployee(r) ==
    [id |-> r.apollo_person_id, name |-> r.employee_name, title |-> r.employee_title,
     email |-> r.employee_email, phone |-> r.employee_phone, city |-> r.employee_city,
     company_id |-> r.company_id, company_name |-> r.company_name]

RowsToEmployees(dbRows) == [i \in 1..Len(dbRows) |-> RowToEmployee(dbRows[i])]

FilterExcludedNothing(employees, excludeIds) == employees
\* filterExcludedEmployees(employees, excludeIds)
FilterExcludedEmployees(employees, excludeIds) ==
    IF excludeIds = {} THEN employees
    ELSE SelectSeq(employees, LAMBDA emp : emp.id # NULL /\ emp.id \notin excludeIds)

SliceWhole(list, n) == list
\* array.slice(0, n)
Slice(list, n) == SubSeq(list, 1, Min(Len(list), Max(n, 0)))

(***************************************************************************)
(* Employee search: the provider                                           *)
(***************************************************************************)
ProviderThrows == [kind |-> "throw", employees |-> <<>>]
ProviderInvalid == [kind |-> "invalid", employees |-> <<>>]      \* success: false
ProviderAnswers ==
    {ProviderThrows, ProviderInvalid}
      \cup {[kind |-> "people", employees |-> people] : people \in SeqsUpTo(People, MaxBatch)}

\* searchEmployeesFromApollo: const apolloPerPage = 100, whatever per_page is passed
ApolloPerPage(per_page) == MAX_PER_PAGE

\* searchEmployeesFromApollo: the Python script, then callApolloApi when it rejects
SearchEmployeesFromApollo(python, apiKey, http) ==
    IF python.kind # "throw" THEN python
    ELSE IF ~apiKey THEN ProviderThrows
    ELSE http

\* what searchEmployeesFromApollo can return or throw in one invocation
ApolloResults ==
    {SearchEmployeesFromApollo(python, apiKey, http) :
        python \in ProviderAnswers, apiKey \in BOOLEAN, http \in ProviderAnswers}

\* apolloResult && apolloResult.success && apolloResult.employees && apolloResult.employees.length > 0
HasEmployees(apolloResult) == apolloResult.kind = "people" /\ Len(apolloResult.employees) > 0

(***************************************************************************)
(* Employee search: the write-back, `try { await saveEmployeesToCache }`   *)
(***************************************************************************)
\* the outcomes of saveEmployeesToCache(employees, req) inside the search: its
\* tenant check or pool.connect throws (caught by the search), or the loop runs
WriteBacks(employees, req, env) ==
    LET tenantId == RequireTenantId(NULL, req, env)
        skipped == [rows |-> cache, now |-> clock, tenant |-> NULL, threw |-> TRUE,
                    errorCount |-> 0]
    IN IF tenantId = THROW THEN {skipped}
       ELSE {[skipped EXCEPT !.tenant = tenantId]}
              \cup {LET st == SaveLoop(SaveStart(cache, clock), tenantId, employees, failing, 1)
                    IN [rows |-> st.rows, now |-> st.now, tenant |-> tenantId, threw |-> FALSE,
                        errorCount |-> st.errorCount]
                    : failing \in SUBSET (1..Len(employees))}

(***************************************************************************)
(* searchEmployeesFromDb(searchParams, req), repository-based              *)
(***************************************************************************)
HasCriteriaAlways(f) == TRUE
\* hasPersonTitles || hasIndustries || hasLocations
HasCriteria(f) ==
    \/ f.person_titles # <<>>
    \/ f.organization_industries # <<>>
    \/ f.organization_locations # <<>>

CacheSufficientAboveRequested(dbRows, limitedPerPage) == Len(dbRows) > limitedPerPage
\* dbRows.length >= limitedPerPage
CacheSufficient(dbRows, limitedPerPage) == Len(dbRows) >= limitedPerPage

FallbackNothing(dbEmployees) == <<>>
\* `employees = dbEmployees` when Apollo threw or returned no employees
FallbackEmployees(dbEmployees) == dbEmployees

SearchEmployeesFromDb ==
    /\ Idle /\ ops > 0
    /\ \E req \in Requests, f \in FilterSets :
       \E env \in EnvsFor(req) :
         LET tenantId == TenantFromRequest(req)
             call == [NoCall EXCEPT !.op = "searchEmployeesFromDb", !.req = req, !.env = env,
                                    !.tenant = tenantId, !.filters = f]
         IN IF tenantId = NULL /\ env.production
            THEN /\ last' = [call EXCEPT !.outcome = "throw", !.error = "tenant"]
                 /\ UNCHANGED <<cache, clock>>
            ELSE IF ~HasCriteria(f)
            THEN /\ last' = [call EXCEPT !.outcome = "throw", !.error = "validation"]
                 /\ UNCHANGED <<cache, clock>>
            ELSE \E per_page \in PerPages, page \in Pages, exclude_ids \in ExcludeSets :
                 LET limitedPerPage == Max(per_page, 1)
                     asked == [call EXCEPT !.perPage = per_page, !.page = page,
                                           !.excludeIds = exclude_ids]
                 IN \/ \* the repository query rejects
                       /\ last' = [asked EXCEPT !.outcome = "throw", !.error = "cache",
                                                !.cacheReadFailed = TRUE]
                       /\ UNCHANGED <<cache, clock>>
                    \/ LET dbRows == RepoSearchEmployees(cache, tenantId, f, limitedPerPage,
                                                         page, exclude_ids)
                           dbEmployees == RowsToEmployees(dbRows)
                           queried == [asked EXCEPT !.cacheQueried = TRUE, !.cacheRows = dbRows,
                                                    !.outcome = "return", !.success = TRUE]
                           neededFromApollo == limitedPerPage - Len(dbEmployees)
                       IN IF CacheSufficient(dbRows, limitedPerPage)
                          THEN /\ last' = [queried EXCEPT !.employees = dbEmployees,
                                                          !.count = Len(dbEmployees)]
                               /\ UNCHANGED <<cache, clock>>
                          ELSE \E apolloResult \in ApolloResults :
                               LET called == [queried EXCEPT
                                                !.providerCalls = 1,
                                                !.providerPerPage = ApolloPerPage(100),
                                                !.providerAnswered = apolloResult.kind # "throw",
                                                !.providerKind = apolloResult.kind,
                                                !.providerRaw = apolloResult.employees]
                               IN IF ~HasEmployees(apolloResult)
                                  THEN /\ last' = [called EXCEPT
                                                     !.employees = FallbackEmployees(dbEmployees),
                                                     !.count = Len(FallbackEmployees(dbEmployees))]
                                       /\ UNCHANGED <<cache, clock>>
                                  ELSE LET formatted == FilterExcludedEmployees(
                                                          FormatApolloEmployees(apolloResult.employees),
                                                          exclude_ids)
                                           employees == Slice(dbEmployees \o Slice(formatted, neededFromApollo),
                                                              limitedPerPage)
                                       IN \E wb \in WriteBacks(formatted, req, env) :
                                            /\ cache' = wb.rows
                                            /\ clock' = wb.now
                                            /\ last' = [called EXCEPT
                                                          !.providerRows = formatted,
                                                          !.employees = employees,
                                                          !.count = Len(employees),
                                                          !.writeTenant = wb.tenant,
                                                          !.errorCount = wb.errorCount,
                                                          !.cacheWriteFailed = wb.threw]
    /\ ops' = ops - 1
    /\ UNCHANGED race
    /\ UNCHANGED revealed

(***************************************************************************)
(* searchEmployeesFromDb(searchParams, req), pool-based                    *)
(***************************************************************************)
SearchEmployeesFromDbPool ==
    /\ Idle /\ ops > 0
    /\ \E req \in Requests, f \in FilterSets :
       \E env \in EnvsFor(req) :
         LET tenantId == TenantFromRequest(req)
             call == [NoCall EXCEPT !.op = "searchEmployeesFromDbPool", !.req = req,
                                    !.env = env, !.tenant = tenantId, !.filters = f]
         IN IF tenantId = NULL /\ env.production
            THEN /\ last' = [call EXCEPT !.outcome = "throw", !.error = "tenant"]
                 /\ UNCHANGED <<cache, clock>>
            ELSE IF ~HasCriteria(f)
            THEN /\ last' = [call EXCEPT !.outcome = "throw", !.error = "validation"]
                 /\ UNCHANGED <<cache, clock>>
            ELSE \E per_page \in PerPages, page \in Pages :
                 LET limitedPerPage == Max(per_page, 1)
                     asked == [call EXCEPT !.perPage = per_page, !.page = page]
                 IN \/ \* pool.connect() rejects
                       /\ last' = [asked EXCEPT !.outcome = "throw", !.error = "cache"]
                       /\ UNCHANGED <<cache, clock>>
                    \/ \* client.query rejects: release, then Apollo directly
                       \E apolloResult \in ApolloResults :
                         LET called == [asked EXCEPT
                                          !.connected = TRUE, !.releases = 1,
                                          !.cacheReadFailed = TRUE, !.providerCalls = 1,
                                          !.providerPerPage = ApolloPerPage(per_page),
                                          !.providerAnswered = apolloResult.kind # "throw",
                                                !.providerKind = apolloResult.kind,
                                                !.providerRaw = apolloResult.employees]
                         IN /\ last' =
                                 IF apolloResult.kind = "throw"
                                 THEN [called EXCEPT !.outcome = "throw", !.error = "cache"]
                                 ELSE \* { employees, totalCount, page, per_page, source }:
                                      \* no success, no count, the provider's page whole
                                      [called EXCEPT
                                         !.outcome = "return",
                                         !.providerRows = apolloResult.employees,
                                         !.employees = apolloResult.employees]
                            /\ UNCHANGED <<cache, clock>>
                    \/ LET dbRows == PoolCacheQuery(cache, tenantId, f, limitedPerPage, page)
                           queried == [asked EXCEPT !.cacheQueried = TRUE, !.cacheRows = dbRows,
                                                    !.connected = TRUE,
                                                    !.outcome = "return", !.success = TRUE]
                       IN IF Len(dbRows) > 0
                          THEN /\ last' = [queried EXCEPT !.employees = RowsToEmployees(dbRows),
                                                          !.count = Len(dbRows)]
                               /\ UNCHANGED <<cache, clock>>
                          ELSE \E apolloResult \in ApolloResults :
                               LET called == [queried EXCEPT
                                                !.releases = 1,   \* client.release() of STEP 2
                                                !.providerCalls = 1,
                                                !.providerPerPage = ApolloPerPage(100),
                                                !.providerAnswered = apolloResult.kind # "throw",
                                                !.providerKind = apolloResult.kind,
                                                !.providerRaw = apolloResult.employees]
                               IN IF ~HasEmployees(apolloResult)
                                  THEN /\ last' = called
                                       /\ UNCHANGED <<cache, clock>>
                                  ELSE LET formatted == FormatApolloEmployees(apolloResult.employees)
                                           employees == IF Len(formatted) > limitedPerPage
                                                        THEN Slice(formatted, limitedPerPage)
                                                        ELSE formatted
                                       IN \E wb \in WriteBacks(formatted, req, env) :
                                            /\ cache' = wb.rows
                                            /\ clock' = wb.now
                                            /\ last' = [called EXCEPT
                                                          !.providerRows = formatted,
                                                          !.employees = employees,
                                                          !.count = Len(employees),
                                                          !.writeTenant = wb.tenant,
                                                          !.errorCount = wb.errorCount,
                                                          !.cacheWriteFailed = wb.threw]
    /\ ops' = ops - 1
    /\ UNCHANGED race
    /\ UNCHANGED revealed

(***************************************************************************)
(* The caller takes the response                                           *)
(***************************************************************************)
Respond ==
    /\ ~Idle
    /\ last' = NoCall
    /\ UNCHANGED <<cache, clock, ops, revealed, race>>

(***************************************************************************)
(* The soft delete of a row: employees_cache.is_deleted, 'true if deleted, *)
(* false if active'.  No statement of the feature sets the column; the row *)
(* is soft-deleted by whoever owns the table beside the feature.           *)
(***************************************************************************)
SoftDelete ==
    /\ Idle /\ ops > 0
    /\ \E r \in cache :
         /\ ~r.is_deleted
         /\ cache' = (cache \ {r}) \cup {[r EXCEPT !.is_deleted = TRUE]}
         /\ last' = [NoCall EXCEPT !.op = "softDelete", !.tenant = r.tenant_id,
                                   !.personId = r.apollo_person_id, !.outcome = "return"]
    /\ ops' = ops - 1
    /\ UNCHANGED race
    /\ UNCHANGED <<clock, revealed>>

(***************************************************************************)
(* Two revealEmail(personId, null, req) calls of one tenant for one person *)
(* served at once.  Each `await` of the function is a point where the      *)
(* other call may run: the cache query, the provider call, the UPDATE.     *)
(***************************************************************************)
RaceTenant == "t1"
RacePerson == "p1"

RaceLookup(p) ==
    /\ race.proc[p].pc = "start"
    /\ LET me == race.proc[p]
           rows == EmailCacheRows(cache, RaceTenant, RacePerson, NULL)
           Goes(next) == race' = [race EXCEPT !.proc[p] = next]
       IN \/ \* the query rejects with the client held: logged, treated as a miss
             Goes([me EXCEPT !.pc = "missed", !.stale = TRUE])
          \/ IF rows = {}
             THEN Goes([me EXCEPT !.pc = "missed"])
             ELSE \E row \in rows :
                    IF ~IsFakeEmail(row.employee_email)
                    THEN Goes([me EXCEPT !.pc = "done", !.outcome = "return",
                                         !.email = row.employee_email,
                                         !.from_cache = TRUE])
                    ELSE Goes([me EXCEPT !.pc = "missed"])
    /\ UNCHANGED <<cache, clock, ops, last, revealed>>

RaceProvider(p) ==
    /\ race.proc[p].pc = "missed"
    /\ LET me == race.proc[p]
           Goes(next) == race' = [race EXCEPT !.proc[p] = next]
           Throws(error) == [me EXCEPT !.pc = "done", !.outcome = "throw",
                                       !.error = IF me.stale THEN "release" ELSE error]
       IN \/ \E failure \in RevealFailures :
               Goes([Throws(failure) EXCEPT !.providerCalls = 1])
          \/ \E person \in EmailMatches :
               LET email == ChooseEmail(person)
                   answered == [me EXCEPT !.providerCalls = 1,
                                          !.credits_used = EMAIL_REVEAL]
               IN IF email = NoEmail \/ IsFakeEmail(email)
                  THEN Goes([answered EXCEPT !.pc = "done", !.outcome = "return",
                                             !.resultError = TRUE])
                  ELSE Goes([answered EXCEPT !.pc = "fetched", !.email = email])
    /\ UNCHANGED <<cache, clock, ops, last, revealed>>

RaceWriteBack(p) ==
    /\ race.proc[p].pc = "fetched"
    /\ LET me == race.proc[p]
           returned == [me EXCEPT !.pc = "done", !.outcome = "return"]
           \* the second release of a client the cache check already released
           thrown == [me EXCEPT !.pc = "done", !.outcome = "throw", !.error = "release",
                                !.email = NoEmail, !.credits_used = 0]
           after == IF me.stale THEN thrown ELSE returned
       IN \/ /\ cache' = UpdateEmail(cache, RaceTenant, RacePerson, me.email)
             /\ race' = [race EXCEPT !.proc[p] = [after EXCEPT !.wrote = TRUE],
                                     !.writes = Append(@, me.email)]
          \/ \* pool.connect or the UPDATE rejects: logged, skipped
             /\ race' = [race EXCEPT !.proc[p] = after]
             /\ UNCHANGED cache
    /\ UNCHANGED <<clock, ops, last, revealed>>

(***************************************************************************)
(* Specification of the cache writers                                      *)
(***************************************************************************)
InitCache ==
    /\ cache = {}
    /\ clock = 1
    /\ ops = MaxOps
    /\ last = NoCall
    /\ revealed = {}
    /\ race = NoRace

NextCache ==
    \/ UpsertEmployee
    \/ SaveEmployeesToCache
    \/ Respond

SpecCache == InitCache /\ [][NextCache]_vars

(***************************************************************************)
(* Specification of the contact reveal over a cache filled by upserts      *)
(***************************************************************************)
InitReveal ==
    /\ cache = {}
    /\ clock = 1
    /\ ops = MaxRevealOps
    /\ last = NoCall
    /\ revealed = {}
    /\ race = NoRace

NextReveal ==
    \/ UpsertEmployee
    \/ RevealEmail
    \/ RevealPhone
    \/ LegacyRevealEmail
    \/ LegacyRevealPhone
    \/ Respond

SpecReveal == InitReveal /\ [][NextReveal]_vars

(***************************************************************************)
(* Specification of the reads (reveal, pool-based search) over a cache     *)
(* whose rows may be soft-deleted                                          *)
(***************************************************************************)
InitSoftDelete ==
    /\ cache = {}
    /\ clock = 1
    /\ ops = MaxRevealOps
    /\ last = NoCall
    /\ revealed = {}
    /\ race = NoRace

NextSoftDelete ==
    \/ UpsertEmployee
    \/ SoftDelete
    \/ RevealEmail
    \/ RevealPhone
    \/ SearchEmployeesFromDbPool
    \/ Respond

SpecSoftDelete == InitSoftDelete /\ [][NextSoftDelete]_vars

(***************************************************************************)
(* Specification of two concurrent e-mail reveals of one person, over a    *)
(* cache that holds no row for the person, or the row a search wrote       *)
(***************************************************************************)
InitRace ==
    /\ cache \in {{}} \cup {UpsertRows({}, RaceTenant, FormatApolloEmployee(raw), 1) :
                               raw \in {r \in People : r.id = RacePerson}}
    /\ clock = 2
    /\ ops = 0
    /\ last = NoCall
    /\ revealed = {}
    /\ race = [NoRace EXCEPT !.proc = [p \in RevealProcs |-> [NoProc EXCEPT !.pc = "start"]]]

NextRace ==
    \/ \E p \in RevealProcs : RaceLookup(p)
    \/ \E p \in RevealProcs : RaceProvider(p)
    \/ \E p \in RevealProcs : RaceWriteBack(p)

SpecRace == InitRace /\ [][NextRace]_vars

\* The same calls with the scheduling the code gives them.  A call that has a
\* database statement to run gets to run it (the pool's statements end, by
\* their result or by the driver's error).  The provider call of revealEmail
\* is `axios.post(url, body, { headers })`: no `timeout` option, so nothing in
\* the process ends the wait, and the step that takes the provider's answer
\* is left without a fairness condition.
SpecRaceFair ==
    /\ InitRace /\ [][NextRace]_vars
    /\ \A p \in RevealProcs : WF_vars(RaceLookup(p)) /\ WF_vars(RaceWriteBack(p))

(***************************************************************************)
(* Specification of the employee search over a cache filled by upserts and *)
(* by the write-backs of earlier searches                                  *)
(***************************************************************************)
InitSearch ==
    /\ cache = {}
    /\ clock = 1
    /\ ops = MaxOps
    /\ last = NoCall
    /\ revealed = {}
    /\ race = NoRace

NextSearch ==
    \/ UpsertEmployee
    \/ SearchEmployeesFromDb
    \/ SearchEmployeesFromDbPool
    \/ Respond

SpecSearch == InitSearch /\ [][NextSearch]_vars

(***************************************************************************)
(* Properties of the upsert (checked under SpecCache)                      *)
(***************************************************************************)
\* C8: upsertEmployee called again with the (tenant, company, personId) of an
\* existing row leaves exactly one row for that key, whose title is the one of
\* this call; when this call carries no email the stored email is kept.
C8UpsertOverwritesTitleKeepsEmail ==
    [][(last'.op = "upsertEmployee" /\ last'.batch[1].company_id # NULL) =>
        LET e == last'.batch[1]
            before == {r \in cache : /\ r.tenant_id = last'.tenant
                                     /\ r.company_id = e.company_id
                                     /\ r.apollo_person_id = e.id}
            after == {r \in cache' : /\ r.tenant_id = last'.tenant
                                     /\ r.company_id = e.company_id
                                     /\ r.apollo_person_id = e.id}
        IN before # {} =>
             /\ Cardinality(after) = 1
             /\ \A r \in after : r.employee_title = e.title
             /\ e.email = NoEmail =>
                  \A r \in after, q \in before : r.employee_email = q.employee_email]_vars

\* the second upsert of (tenant, c1, p1) brought the title CEO and no email; the
\* row holds the title CEO and the email stored by the first upsert
C8Witness ==
    /\ last.op = "upsertEmployee"
    /\ last.batch[1].title = "CEO"
    /\ last.batch[1].email = NoEmail
    /\ \E r \in cache : /\ r.tenant_id = last.tenant
                        /\ r.company_id = "c1"
                        /\ r.apollo_person_id = "p1"
                        /\ r.employee_title = "CEO"
                        /\ r.employee_email = FakeEmailInfo

\* C9: no two rows of employees_cache share (tenant_id, company_id,
\* apollo_person_id), records without a company id included.
C9UniqueKey ==
    \A r \in cache, q \in cache :
        (/\ r.tenant_id = q.tenant_id
         /\ r.company_id = q.company_id
         /\ r.apollo_person_id = q.apollo_person_id) => r = q

C3RevealCreatesRow ==
    [][(/\ last'.op \in {"revealEmail", "revealPhone"}
        /\ last'.outcome = "return"
        /\ ~last'.from_cache
        /\ last'.cacheWritten
        /\ ~\E r \in cache : /\ r.tenant_id = last'.tenant
                             /\ r.apollo_person_id = last'.personId)
       => \E r \in cache' : /\ r.tenant_id = last'.tenant
                            /\ r.apollo_person_id = last'.personId
                            /\ IF last'.op = "revealEmail"
                               THEN r.employee_email = last'.email
                               ELSE r.employee_phone = last'.phone]_vars

\* C10: revealPhone with a webhook URL configured, for a person without a cache
\* row, once the provider has accepted the request: phone null, processing
\* true, cost 8, and the cache is left as it was.
C10WebhookPhonePending ==
    [][(/\ last'.op = "revealPhone"
        /\ last'.webhook
        /\ last'.providerAnswered
        /\ ~\E r \in cache : /\ r.tenant_id = last'.tenant
                             /\ r.apollo_person_id = last'.personId)
       => /\ last'.outcome = "return"
          /\ last'.phone = NULL
          /\ last'.processing
          /\ ~last'.from_cache
          /\ last'.credits_used = 8
          /\ cache' = cache]_vars

\* the pending answer of such a call, with rows of other persons in the cache
C10Witness ==
    /\ last.op = "revealPhone"
    /\ last.webhook
    /\ last.providerAnswered
    /\ last.processing
    /\ last.credits_used = 8
    /\ cache # {}
    /\ ~\E r \in cache : /\ r.tenant_id = last.tenant
                         /\ r.apollo_person_id = last.personId

(***************************************************************************)
(* Properties of the employee search (checked under SpecSearch)            *)
(***************************************************************************)
\* C1: every cache row a search returns, and every row a reveal uses as its
\* cache hit, belongs to the tenant of the call.
C1TenantScopedReads ==
    /\ \A i \in 1..Len(last.cacheRows) :
          last.cacheRows[i].tenant_id = RequireTenantId(NULL, last.req, last.env)
    /\ \A r \in last.cacheHit :
          r.tenant_id = RequireTenantId(NULL, last.req, last.env)

C5MatchingRowsSufficient ==
    [][(/\ last'.op \in {"searchEmployeesFromDb", "searchEmployeesFromDbPool"}
        /\ last'.cacheQueried
        /\ Cardinality(IF last'.op = "searchEmployeesFromDb"
                       THEN RepoMatchingRows(cache, last'.tenant, last'.filters,
                                             last'.excludeIds)
                       ELSE PoolMatchingRows(cache, last'.tenant, last'.filters))
             >= last'.perPage)
       => /\ last'.providerCalls = 0
          /\ Len(last'.employees) = last'.perPage
          /\ last'.employees = RowsToEmployees(last'.cacheRows)
          /\ \A i \in 1..Len(last'.cacheRows), j \in 1..Len(last'.cacheRows) :
                i < j => last'.cacheRows[i].created_at >= last'.cacheRows[j].created_at]_vars

\* C5, amended: when at least perPage matching cache rows remain after the
\* offset (page - 1) * perPage of the requested page, the search calls no
\* provider and returns exactly perPage rows, newest first: the rows at
\* positions offset + 1 .. offset + perPage of the matching rows by creation
\* time.
C5PageSufficient ==
    [][LET matching == IF last'.op = "searchEmployeesFromDb"
                       THEN RepoMatchingRows(cache, last'.tenant, last'.filters,
                                             last'.excludeIds)
                       ELSE PoolMatchingRows(cache, last'.tenant, last'.filters)
           offset == (last'.page - 1) * last'.perPage
       IN (/\ last'.op \in {"searchEmployeesFromDb", "searchEmployeesFromDbPool"}
           /\ last'.cacheQueried
           /\ Cardinality(matching) - offset >= last'.perPage)
          => /\ last'.providerCalls = 0
             /\ Len(last'.employees) = last'.perPage
             /\ last'.employees = RowsToEmployees(last'.cacheRows)
             /\ \A i \in 1..Len(last'.cacheRows) :
                   /\ last'.cacheRows[i] \in matching
                   /\ Cardinality({q \in matching :
                                     q.created_at > last'.cacheRows[i].created_at})
                        = offset + i - 1
             /\ cache' = cache]_vars

\* page 2 of a repository-based search with perPage 1 over two matching rows:
\* the older row, and no provider call
C5Witness ==
    /\ last.op = "searchEmployeesFromDb"
    /\ last.page = 2
    /\ last.perPage = 1
    /\ last.providerCalls = 0
    /\ Len(last.employees) = 1
    /\ \E r \in cache : r.created_at > last.cacheRows[1].created_at

C12PlaceholderCacheIsMiss ==
    [][(/\ last'.op = "revealEmail"
        /\ last'.cacheQueried
        /\ EmailCacheRows(cache, last'.tenant, last'.personId, last'.employeeName) # {}
        /\ \A r \in EmailCacheRows(cache, last'.tenant, last'.personId, last'.employeeName) :
              r.employee_email \in {FakeEmailInfo, FakeEmailTest})
       => /\ ~last'.from_cache
          /\ last'.cacheHit = {}
          /\ \/ last'.providerCalls = 1
             \/ last'.error \in {"person_id", "api_key"}]_vars

\* the cache holds INFO@acme.com for the person and the provider was called
C12Witness ==
    /\ last.op = "revealEmail"
    /\ last.cacheQueried
    /\ last.personId # NULL
    /\ ~last.from_cache
    /\ last.providerCalls = 1
    /\ \E r \in cache : /\ r.tenant_id = last.tenant
                        /\ r.apollo_person_id = last.personId
                        /\ r.employee_email = FakeEmailInfo

\* C13: when the provider answers revealEmail without a work or personal email
\* that is not a placeholder, the call returns (does not throw) email null,
\* from_cache false, the reveal cost and an error field, and leaves the cache
\* as it was.
C13NoValidEmailResult ==
    [][(/\ last'.op = "revealEmail"
        /\ \E person \in last'.providerMatch :
              /\ person.email \in {NoEmail, FakeEmailInfo, FakeEmailTest}
              /\ \A i \in 1..Len(person.personal_emails) :
                    person.personal_emails[i] \in {NoEmail, FakeEmailInfo, FakeEmailTest})
       => /\ last'.outcome = "return"
          /\ last'.email = NoEmail
          /\ ~last'.from_cache
          /\ last'.credits_used = 1
          /\ last'.resultError
          /\ RevealResponse(last').credits_used = {1}
          /\ cache' = cache]_vars

\* the provider had only test@example.com for a person whose cached email is
\* a placeholder too
C13Witness ==
    /\ last.op = "revealEmail"
    /\ last.providerMatch = {[email |-> NoEmail, personal_emails |-> <<FakeEmailTest>>]}
    /\ last.resultError
    /\ last.credits_used = 1
    /\ \E r \in cache : /\ r.tenant_id = last.tenant
                        /\ r.apollo_person_id = last.personId
                        /\ r.employee_email = FakeEmailInfo

\* C14: every result a reveal reports carries cost 0 exactly when it comes
\* from the cache, and otherwise the configured cost, 1 for an email and 8 for
\* a phone, in the feature's handlers and in the handlers outside the feature.
C14FixedRevealCost ==
    (/\ last.op \in {"revealEmail", "revealPhone", "legacyRevealEmail", "legacyRevealPhone"}
     /\ last.outcome = "return")
    => last.credits_used =
         IF last.from_cache THEN 0
         ELSE IF last.op \in {"revealEmail", "legacyRevealEmail"} THEN 1 ELSE 8

\* C15: two concurrent reveals of one person that both miss may both pay the
\* provider, and once both have ended and a write-back has run, the cache
\* holds exactly one row for the person, with the e-mail written last.
C15LastWriteWins ==
    (/\ \A p \in RevealProcs : race.proc[p].pc = "done"
     /\ race.writes # <<>>)
    => LET rows == {r \in cache : r.tenant_id = RaceTenant /\ r.apollo_person_id = RacePerson}
       IN /\ Cardinality(rows) = 1
          /\ \A r \in rows : r.employee_email = race.writes[Len(race.writes)]

\* both calls missed, both called the provider, both charged
C15BothCharged ==
    \A p \in RevealProcs :
      /\ race.proc[p].pc = "done" /\ race.proc[p].outcome = "return"
      /\ ~race.proc[p].from_cache
      /\ race.proc[p].providerCalls = 1
      /\ race.proc[p].credits_used = EMAIL_REVEAL

\* C16: a failed cache read or a failed cache write never fails a search or a
\* reveal: when the cache statement rejected and the provider did not, the
\* operation returns its result instead of throwing.
C16CacheFailureDegrades ==
    (/\ last.op \in {"searchEmployeesFromDb", "searchEmployeesFromDbPool",
                     "revealEmail", "revealPhone"}
     /\ last.cacheReadFailed \/ last.cacheWriteFailed
     /\ last.providerKind # "throw")
    => ~(last.outcome = "throw" /\ last.error \in {"cache", "release"})

C18SaveCounts ==
    [][(Idle /\ last'.op = "saveEmployeesToCache" /\ last'.outcome = "return")
       => /\ last'.savedCount + last'.updatedCount + last'.errorCount = Len(last'.batch)
          /\ last'.savedCount = Cardinality(cache') - Cardinality(cache)
          /\ last'.updatedCount =
               Len(last'.batch) - last'.errorCount - (Cardinality(cache') - Cardinality(cache))]_vars

\* C19: a reveal fails with a tenant-context error, before any cache query or
\* provider call, exactly when the request names no tenant and the process
\* runs in production; a request that names its tenant never fails so.
C19TenantErrorExactlyInProduction ==
    last.op \in {"revealEmail", "revealPhone"}
    => /\ (last.outcome = "throw" /\ last.error = "tenant")
            <=> (TenantFromRequest(last.req) = NULL /\ last.env.production)
       /\ (last.outcome = "throw" /\ last.error = "tenant")
            => ~last.cacheQueried /\ ~last.cacheReadFailed /\ last.providerCalls = 0

\* C20: every return of searchEmployeesFromDb, the one after a failed cache
\* query included, is {success: true, employees, count} with count the length
\* of employees, and that length at most the requested page size (at least 1).
C20SearchResultShape ==
    (/\ last.op \in {"searchEmployeesFromDb", "searchEmployeesFromDbPool"}
     /\ last.outcome = "return")
    => /\ last.success
       /\ last.count = Len(last.employees)
       /\ Len(last.employees) <= Max(last.perPage, 1)

\* C21: in a search that falls back to the provider, no provider record whose
\* person id is in excludeIds is returned (the entries after the cache rows),
\* and the call inserts or updates no cache row of such a person.
C21ExcludedNeitherReturnedNorSaved ==
    [][(/\ Idle
        /\ last'.op = "searchEmployeesFromDb"
        /\ last'.outcome = "return"
        /\ last'.providerCalls = 1)
       => /\ \A i \in (Len(last'.cacheRows) + 1)..Len(last'.employees) :
                last'.employees[i].id \notin last'.excludeIds
          /\ \A r \in cache' \ cache : r.apollo_person_id \notin last'.excludeIds]_vars

\* the provider returned p1 and p2 while p1 was excluded: p2 is returned and saved
C21Witness ==
    /\ last.op = "searchEmployeesFromDb"
    /\ last.outcome = "return"
    /\ last.excludeIds = {"p1"}
    /\ \E i \in 1..Len(last.providerRaw) : last.providerRaw[i].id = "p1"
    /\ last.cacheRows = <<>>
    /\ Len(last.employees) = 1
    /\ ~last.cacheWriteFailed
    /\ \E r \in cache : r.apollo_person_id = "p2" /\ r.tenant_id = last.writeTenant
    /\ \A r \in cache : r.apollo_person_id # "p1"

\* C22: on a provider-fallback search whose database statements all succeed,
\* every record the provider returned (after exclusion) has its row in the
\* cache of the tenant the call resolved, whether or not the record is among
\* those returned to the caller; from an empty cache the response holds no more
\* entries than the provider gave.
C22ProviderRecordsAllCached ==
    [][(/\ Idle
        /\ last'.op \in {"searchEmployeesFromDb", "searchEmployeesFromDbPool"}
        /\ last'.outcome = "return"
        /\ last'.providerCalls = 1
        /\ ~last'.cacheReadFailed /\ ~last'.cacheWriteFailed /\ last'.errorCount = 0)
       => /\ (\A i \in 1..Len(last'.providerRows) :
            \E r \in cache' : /\ r.tenant_id = last'.writeTenant
                              /\ r.apollo_person_id = last'.providerRows[i].id
                              /\ r.company_id = last'.providerRows[i].company_id)
          /\ last'.cacheRows = <<>> => last'.count <= Len(last'.providerRows)]_vars

\* per_page 1, the provider returned two people: one is returned, both are cached
C22Witness ==
    /\ last.op = "searchEmployeesFromDb"
    /\ last.outcome = "return"
    /\ last.perPage = 1
    /\ last.cacheRows = <<>>
    /\ Len(last.providerRows) = 2
    /\ last.providerRows[1].id # last.providerRows[2].id
    /\ last.count = 1
    /\ ~last.cacheWriteFailed /\ last.errorCount = 0
    /\ \A i \in 1..2 : \E r \in cache : /\ r.tenant_id = last.writeTenant
                                        /\ r.apollo_person_id = last.providerRows[i].id

\* C23 (as stated): an upsert that hits an existing row stores a new contact,
\* location or company value only where the row had none; a stored non-null
\* email is not replaced by a different non-null email.
C23StoredValuesPreserved ==
    [][(Idle /\ last'.op = "upsertEmployee")
       => LET e == last'.batch[1]
          IN \A q \in ConflictRows(cache, last'.tenant, e) :
               \E r \in ConflictRows(cache', last'.tenant, e) :
                  /\ q.employee_email # NoEmail => r.employee_email = q.employee_email
                  /\ q.employee_phone # NULL => r.employee_phone = q.employee_phone
                  /\ q.employee_city # NULL => r.employee_city = q.employee_city
                  /\ q.company_name # NULL => r.company_name = q.company_name]_vars

\* C23: an upsert that hits an existing row keeps a stored contact, location
\* or company value only where the upsert carries none; a non-null value of
\* the upsert replaces the stored one, a different non-null email included.
C23NewValuesReplaceStored ==
    [][(Idle /\ last'.op = "upsertEmployee")
       => LET e == last'.batch[1]
          IN \A q \in ConflictRows(cache, last'.tenant, e) :
               \E r \in ConflictRows(cache', last'.tenant, e) :
                  /\ r.employee_email = IF e.email = NoEmail THEN q.employee_email ELSE e.email
                  /\ r.employee_phone = IF e.phone = NULL THEN q.employee_phone ELSE e.phone
                  /\ r.employee_city = IF e.city = NULL THEN q.employee_city ELSE e.city
                  /\ r.company_name = IF e.company_name = NULL THEN q.company_name
                                      ELSE e.company_name]_vars

\* the row held bob@corp.io (written by a reveal); the upsert brought INFO@acme.com
C23Witness ==
    /\ last.op = "upsertEmployee"
    /\ last.batch[1].email = FakeEmailInfo
    /\ \E q \in last.conflictRows : q.employee_email = RealEmailA
    /\ \E r \in cache : /\ r.tenant_id = last.tenant
                        /\ r.apollo_person_id = last.batch[1].id
                        /\ r.company_id = last.batch[1].company_id
                        /\ r.employee_email = FakeEmailInfo

\* C24: every reveal eventually returns or throws, even when the provider
\* never answers, because its provider call ends by its answer or its timeout.
C24RevealTerminates ==
    \A p \in RevealProcs : <>(race.proc[p].pc = "done")

\* C25: on every path of revealEmail and revealPhone the database client taken
\* from the pool is released at most once and runs no statement after its
\* release.
C25ClientReleasedOnce ==
    last.op \in {"revealEmail", "revealPhone"}
    => ~last.doubleRelease /\ ~last.usedAfterRelease

\* C26: the pool-based search releases the client it checked out exactly once
\* before it returns or throws, on the cache-hit path as on the others.
C26SearchClientReleased ==
    (last.op = "searchEmployeesFromDbPool" /\ last.connected)
    => last.releases = 1

\* C27: the list a search returns holds no person id twice, also when the
\* rows of a partly filled cache page are completed with provider records of
\* people the cache already holds (the cache page and the provider's answer
\* each naming every person once).
C27NoDuplicatePersons ==
    (/\ last.op \in {"searchEmployeesFromDb", "searchEmployeesFromDbPool"}
     /\ last.outcome = "return"
     /\ \A i, j \in 1..Len(last.cacheRows) :
           last.cacheRows[i].apollo_person_id = last.cacheRows[j].apollo_person_id => i = j
     /\ \A i, j \in 1..Len(last.providerRaw) :
           last.providerRaw[i].id = last.providerRaw[j].id => i = j)
    => \A i, j \in 1..Len(last.employees) :
          last.employees[i].id = last.employees[j].id => i = j

\* C28: once a reveal has written a real e-mail into the row of (tenant,
\* person), no later write-back of provider search results for that person
\* replaces it by a placeholder or erases it: the row still holds a real
\* e-mail, so the next revealEmail is a cache hit.
C28RevealedEmailSurvivesWriteBack ==
    [][(Idle /\ last'.op = "upsertEmployee")
       => \A q \in cache :
            (/\ <<q.tenant_id, q.apollo_person_id, q.employee_email>> \in revealed
             /\ ~IsFakeEmail(q.employee_email))
            => \E r \in cache' : /\ r.tenant_id = q.tenant_id
                                 /\ r.company_id = q.company_id
                                 /\ r.apollo_person_id = q.apollo_person_id
                                 /\ ~IsFakeEmail(r.employee_email)]_vars

\* C29: within one search, the tenant under which the provider's records are
\* written back is the tenant by which the cache query of the call was scoped,
\* however the request carries its tenant, the DEV_TENANT_ID fallback included.
C29WriteTenantIsQueryTenant ==
    (/\ last.op \in {"searchEmployeesFromDb", "searchEmployeesFromDbPool"}
     /\ last.outcome = "return"
     /\ last.cacheQueried
     /\ last.writeTenant # NULL)
    => last.writeTenant = last.tenant

\* C30: a row whose is_deleted flag is true is never served: the search does
\* not return it, and revealEmail and revealPhone do not take it as a cache hit.
C30DeletedRowsNeverServed ==
    /\ last.op \in {"revealEmail", "revealPhone"}
         => \A r \in last.cacheHit : ~r.is_deleted
    /\ last.op = "searchEmployeesFromDbPool"
         => \A i \in 1..Len(last.cacheRows) : ~last.cacheRows[i].is_deleted

====
